---- MODULE Spec2Model ----
(***************************************************************************)
(* State-machine model of src/src/main.rs: an axum server with two shared  *)
(* stores (a counter and a contact list), each behind its own tokio Mutex, *)
(* and four handlers that lock one store, read or mutate it and render a   *)
(* template block.  The runtime is multi-threaded (#[tokio::main]), so the *)
(* statements of different requests interleave freely; every statement of  *)
(* a handler that touches shared or local state is one action.             *)
(***************************************************************************)
EXTENDS Integers, Sequences, FiniteSets, TLC

\* Number of requests that arrive during one execution.
MaxReqs == 2

Reqs == 1..MaxReqs

\* Largest value of the machine word (usize::MAX), scaled down to the
\* narrowest usize Rust has; the arithmetic below is the same at any width.
MaxUsize == 65535

\* Routes of counter_router and contacts_router (main.rs 50-60).
Kinds == {"GetCounter", "PostIncrement", "GetContacts", "PostContact"}

\* Form inputs a client may submit (FormData, main.rs 217-221).
Names == {"Jane Roe"}
Emails == {"johndoe@hotmail.com", "jane@example.com", "Jane@example.com"}
FormData == [name : Names, email : Emails]
NoForm == [name |-> "", email |-> ""]

\* static NEXT_ID: AtomicUsize = AtomicUsize::new(1)
NEXT_ID_START == 1

\* CounterAppState::new(app_state.clone(), 0)
COUNT_START == 0

\* StatusCode::OK, StatusCode::UNPROCESSABLE_ENTITY
OK == 200
UNPROCESSABLE_ENTITY == 422

VARIABLES
    count,          \* CounterAppState.count: the value inside the Mutex
    count_owner,    \* request holding the guard of CounterAppState.count, 0 if none
    count_order,    \* history: requests in the order they acquired count's lock
    contacts,       \* ContactsAppState.contacts: the Vec inside the Mutex
    contacts_owner, \* request holding the guard of ContactsAppState.contacts, 0 if none
    NEXT_ID,        \* the global AtomicUsize
    pc,             \* position of each request in its handler
    kind,           \* route of each request
    form,           \* Form(form) extracted for add_contact_handler
    tmp,            \* value loaded by `*count += 1` before it is stored back
    new_contact,    \* local new_contact of add_contact_handler
    formdata,       \* local form_rejection_data of add_contact_handler
    reversed,       \* local reversed_contacts of contacts_handler
    blocks,         \* fragments rendered so far by the request
    resp            \* (status, body) returned by the handler

vars == <<count, count_owner, count_order, contacts, contacts_owner, NEXT_ID,
          pc, kind, form, tmp, new_contact, formdata, reversed, blocks, resp>>

counterVars == <<count, count_owner, count_order, tmp>>
contactVars == <<contacts, contacts_owner, NEXT_ID, new_contact, formdata, reversed>>

----------------------------------------------------------------------------
(* Pure functions *)

\* Variant: the allocator is read but never advanced.
fetch_add_stuck(v, n) == v

\* AtomicUsize::fetch_add(1, SeqCst): the value stored afterwards.
fetch_add(v, n) == (v + n) % (MaxUsize + 1)

\* Contact::new: the id is the value NEXT_ID held before the fetch_add.
ContactNew(name, email, next_id) == [name |-> name, email |-> email, id |-> next_id]

\* vec![Contact::new("John Doe", "johndoe@hotmail.com")] in main
SeedContact == ContactNew("John Doe", "johndoe@hotmail.com", NEXT_ID_START)

NoContact == [name |-> "", email |-> "", id |-> 0]

\* HashMap::new()
EmptyMap == [k \in {} |-> ""]

\* HashMap::insert
MapInsert(m, key, value) ==
    [k \in (DOMAIN m) \cup {key} |-> IF k = key THEN value ELSE m[k]]

\* FormRejectionData::new
FormRejectionDataNew == [values |-> EmptyMap, errors |-> EmptyMap]

set_value(fd, key, value) == [fd EXCEPT !.values = MapInsert(fd.values, key, value)]

\* Variant: the message is filed under the submitted values.
set_error_into_values(fd, key, error) ==
    [fd EXCEPT !.values = MapInsert(fd.values, key, error)]

set_error(fd, key, error) == [fd EXCEPT !.errors = MapInsert(fd.errors, key, error)]

\* email_exists: linear scan with exact string equality.
RECURSIVE email_exists_from(_, _, _)
email_exists_from(email, cs, i) ==
    IF i > Len(cs) THEN FALSE
    ELSE IF cs[i].email = email THEN TRUE
    ELSE email_exists_from(email, cs, i + 1)

\* str::to_ascii_lowercase on the emails of the model.
to_ascii_lowercase(e) == IF e = "Jane@example.com" THEN "jane@example.com" ELSE e

\* Variant: the scan compares with eq_ignore_ascii_case.
email_exists_ignore_case(email, cs) ==
    \E i \in 1..Len(cs) : to_ascii_lowercase(cs[i].email) = to_ascii_lowercase(email)

\* Variant: the scan stops one entry short of the end.
email_exists_skip_last(email, cs) ==
    \E i \in 1..(Len(cs) - 1) : cs[i].email = email

email_exists(email, cs) == email_exists_from(email, cs, 1)

\* Variant: the contacts are collected in storage order.
Rev_storage_order(s) == s

\* contacts.iter().rev().collect()
Rev(s) == [i \in 1..Len(s) |-> s[Len(s) + 1 - i]]

\* render_block on success: the template engine is a black box, the fragment
\* is identified by the template, the block and the context it was given.
render_block(tpl_name, tpl_ctx, tpl_blk) ==
    [tpl |-> tpl_name, blk |-> tpl_blk, ctx |-> tpl_ctx]

NoResp == [status |-> 0, body |-> <<>>]

\* Variant: a lock that excludes nobody.
CanLockAlways(owner) == TRUE

\* tokio Mutex: lock().await resolves only when no guard is alive.
CanLock(owner) == owner = 0

----------------------------------------------------------------------------
Init ==
    /\ count = COUNT_START
    /\ count_owner = 0
    /\ count_order = <<>>
    /\ contacts = <<SeedContact>>
    /\ contacts_owner = 0
    /\ NEXT_ID = fetch_add(NEXT_ID_START, 1)
    /\ pc = [p \in Reqs |-> "idle"]
    /\ kind = [p \in Reqs |-> "none"]
    /\ form = [p \in Reqs |-> NoForm]
    /\ tmp = [p \in Reqs |-> 0]
    /\ new_contact = [p \in Reqs |-> NoContact]
    /\ formdata = [p \in Reqs |-> FormRejectionDataNew]
    /\ reversed = [p \in Reqs |-> <<>>]
    /\ blocks = [p \in Reqs |-> <<>>]
    /\ resp = [p \in Reqs |-> NoResp]

\* A request is routed to its handler.  Slots are taken in order, which
\* only fixes the names of the requests, not their interleaving.
Begin(p, k, f) ==
    /\ pc[p] = "idle"
    /\ \A q \in Reqs : q < p => pc[q] # "idle"
    /\ (k = "PostContact") <=> (f # NoForm)
    /\ kind' = [kind EXCEPT ![p] = k]
    /\ form' = [form EXCEPT ![p] = f]
    /\ pc' = [pc EXCEPT ![p] = "lock"]
    /\ UNCHANGED <<counterVars, contactVars, blocks, resp>>

----------------------------------------------------------------------------
(* counter_handler *)

counter_handler_lock(p) ==
    /\ pc[p] = "lock" /\ kind[p] = "GetCounter"
    /\ CanLock(count_owner)
    /\ count_owner' = p
    /\ count_order' = Append(count_order, p)
    /\ pc' = [pc EXCEPT ![p] = "render"]
    /\ UNCHANGED <<count, tmp, contactVars, kind, form, blocks, resp>>

\* Variant: rendering the counter page also bumps the counter.
counter_handler_render_bumps(p) ==
    /\ pc[p] = "render" /\ kind[p] = "GetCounter"
    /\ count' = count + 1
    /\ blocks' = [blocks EXCEPT ![p] =
            <<render_block("counter.html", [count |-> count + 1], "counter")>>]
    /\ pc' = [pc EXCEPT ![p] = "return"]
    /\ UNCHANGED <<count_owner, count_order, tmp, contactVars, kind, form, resp>>

counter_handler_render(p) ==
    /\ pc[p] = "render" /\ kind[p] = "GetCounter"
    /\ blocks' = [blocks EXCEPT ![p] =
            <<render_block("counter.html", [count |-> count], "counter")>>]
    /\ pc' = [pc EXCEPT ![p] = "return"]
    /\ UNCHANGED <<counterVars, contactVars, kind, form, resp>>

\* The guard `count` is dropped when the function returns.
counter_handler_return(p) ==
    /\ pc[p] = "return" /\ kind[p] = "GetCounter"
    /\ resp' = [resp EXCEPT ![p] = [status |-> OK, body |-> blocks[p]]]
    /\ count_owner' = 0
    /\ pc' = [pc EXCEPT ![p] = "done"]
    /\ UNCHANGED <<count, count_order, tmp, contactVars, kind, form, blocks>>

\* render_block panics (expect on a missing template, a missing block or an
\* evaluation error): the stack unwinds, the guard is dropped, the task ends
\* without a response.
counter_handler_panic(p) ==
    /\ pc[p] = "render" /\ kind[p] = "GetCounter"
    /\ count_owner' = 0
    /\ pc' = [pc EXCEPT ![p] = "panicked"]
    /\ UNCHANGED <<count, count_order, tmp, contactVars, kind, form, blocks, resp>>

----------------------------------------------------------------------------
(* increment_handler *)

increment_handler_lock(p) ==
    /\ pc[p] = "lock" /\ kind[p] = "PostIncrement"
    /\ CanLock(count_owner)
    /\ count_owner' = p
    /\ count_order' = Append(count_order, p)
    /\ pc' = [pc EXCEPT ![p] = "load"]
    /\ UNCHANGED <<count, tmp, contactVars, kind, form, blocks, resp>>

\* `*count += 1` reads the value through the guard ...
increment_handler_load(p) ==
    /\ pc[p] = "load" /\ kind[p] = "PostIncrement"
    /\ tmp' = [tmp EXCEPT ![p] = count]
    /\ pc' = [pc EXCEPT ![p] = "store"]
    /\ UNCHANGED <<count, count_owner, count_order, contactVars, kind, form, blocks, resp>>

\* Variant: the increment also advances the contact id allocator.
increment_handler_store_bumps_id(p) ==
    /\ pc[p] = "store" /\ kind[p] = "PostIncrement"
    /\ count' = (tmp[p] + 1) % (MaxUsize + 1)
    /\ NEXT_ID' = fetch_add(NEXT_ID, 1)
    /\ pc' = [pc EXCEPT ![p] = "render"]
    /\ UNCHANGED <<count_owner, count_order, tmp, contacts, contacts_owner,
                   new_contact, formdata, reversed, kind, form, blocks, resp>>

\* ... and writes the sum back.  Without overflow checks (release profile)
\* the sum wraps around at usize::MAX.
increment_handler_store(p) ==
    /\ pc[p] = "store" /\ kind[p] = "PostIncrement"
    /\ count' = (tmp[p] + 1) % (MaxUsize + 1)
    /\ pc' = [pc EXCEPT ![p] = "render"]
    /\ UNCHANGED <<count_owner, count_order, tmp, contactVars, kind, form, blocks, resp>>

\* Variant: the fragment shows the value loaded before the increment.
\* With overflow checks (dev profile) `*count += 1` panics at usize::MAX
\* instead: nothing is written, the stack unwinds and the guard is dropped.
increment_handler_overflow(p) ==
    /\ pc[p] = "store" /\ kind[p] = "PostIncrement"
    /\ tmp[p] = MaxUsize
    /\ count_owner' = 0
    /\ pc' = [pc EXCEPT ![p] = "panicked"]
    /\ UNCHANGED <<count, count_order, tmp, contactVars, kind, form, blocks, resp>>

\* Variant: the fragment shows the value loaded before the increment.
increment_handler_render_stale(p) ==
    /\ pc[p] = "render" /\ kind[p] = "PostIncrement"
    /\ blocks' = [blocks EXCEPT ![p] =
            <<render_block("counter.html", [count |-> tmp[p]], "count")>>]
    /\ pc' = [pc EXCEPT ![p] = "return"]
    /\ UNCHANGED <<counterVars, contactVars, kind, form, resp>>

increment_handler_render(p) ==
    /\ pc[p] = "render" /\ kind[p] = "PostIncrement"
    /\ blocks' = [blocks EXCEPT ![p] =
            <<render_block("counter.html", [count |-> count], "count")>>]
    /\ pc' = [pc EXCEPT ![p] = "return"]
    /\ UNCHANGED <<counterVars, contactVars, kind, form, resp>>

increment_handler_return(p) ==
    /\ pc[p] = "return" /\ kind[p] = "PostIncrement"
    /\ resp' = [resp EXCEPT ![p] = [status |-> OK, body |-> blocks[p]]]
    /\ count_owner' = 0
    /\ pc' = [pc EXCEPT ![p] = "done"]
    /\ UNCHANGED <<count, count_order, tmp, contactVars, kind, form, blocks>>

increment_handler_panic(p) ==
    /\ pc[p] = "render" /\ kind[p] = "PostIncrement"
    /\ count_owner' = 0
    /\ pc' = [pc EXCEPT ![p] = "panicked"]
    /\ UNCHANGED <<count, count_order, tmp, contactVars, kind, form, blocks, resp>>

----------------------------------------------------------------------------
(* contacts_handler *)

contacts_handler_lock(p) ==
    /\ pc[p] = "lock" /\ kind[p] = "GetContacts"
    /\ CanLock(contacts_owner)
    /\ contacts_owner' = p
    /\ pc' = [pc EXCEPT ![p] = "reverse"]
    /\ UNCHANGED <<counterVars, contacts, NEXT_ID, new_contact, formdata, reversed,
                   kind, form, blocks, resp>>

contacts_handler_reverse(p) ==
    /\ pc[p] = "reverse" /\ kind[p] = "GetContacts"
    /\ reversed' = [reversed EXCEPT ![p] = Rev(contacts)]
    /\ pc' = [pc EXCEPT ![p] = "render"]
    /\ UNCHANGED <<counterVars, contacts, contacts_owner, NEXT_ID, new_contact,
                   formdata, kind, form, blocks, resp>>

contacts_handler_render(p) ==
    /\ pc[p] = "render" /\ kind[p] = "GetContacts"
    /\ blocks' = [blocks EXCEPT ![p] =
            <<render_block("contacts.html",
                           [contacts |-> reversed[p], formdata |-> FormRejectionDataNew],
                           "contacts")>>]
    /\ pc' = [pc EXCEPT ![p] = "return"]
    /\ UNCHANGED <<counterVars, contactVars, kind, form, resp>>

\* reversed_contacts and the guard `contacts` are dropped at the return.
contacts_handler_return(p) ==
    /\ pc[p] = "return" /\ kind[p] = "GetContacts"
    /\ resp' = [resp EXCEPT ![p] = [status |-> OK, body |-> blocks[p]]]
    /\ contacts_owner' = 0
    /\ reversed' = [reversed EXCEPT ![p] = <<>>]
    /\ pc' = [pc EXCEPT ![p] = "done"]
    /\ UNCHANGED <<counterVars, contacts, NEXT_ID, new_contact, formdata,
                   kind, form, blocks>>

contacts_handler_panic(p) ==
    /\ pc[p] = "render" /\ kind[p] = "GetContacts"
    /\ contacts_owner' = 0
    /\ reversed' = [reversed EXCEPT ![p] = <<>>]
    /\ pc' = [pc EXCEPT ![p] = "panicked"]
    /\ UNCHANGED <<counterVars, contacts, NEXT_ID, new_contact, formdata,
                   kind, form, blocks, resp>>

----------------------------------------------------------------------------
(* add_contact_handler *)

\* `let contacts = &mut state.contacts.lock().await;` the guard is a temporary
\* whose lifetime is extended to the end of the function body.
add_contact_handler_lock(p) ==
    /\ pc[p] = "lock" /\ kind[p] = "PostContact"
    /\ CanLock(contacts_owner)
    /\ contacts_owner' = p
    /\ pc' = [pc EXCEPT ![p] = "new"]
    /\ UNCHANGED <<counterVars, contacts, NEXT_ID, new_contact, formdata, reversed,
                   kind, form, blocks, resp>>

\* let new_contact = Contact::new(&form.name, &form.email);
add_contact_handler_new(p) ==
    /\ pc[p] = "new" /\ kind[p] = "PostContact"
    /\ new_contact' = [new_contact EXCEPT ![p] =
            ContactNew(form[p].name, form[p].email, NEXT_ID)]
    /\ NEXT_ID' = fetch_add(NEXT_ID, 1)
    /\ pc' = [pc EXCEPT ![p] = "check"]
    /\ UNCHANGED <<counterVars, contacts, contacts_owner, formdata, reversed,
                   kind, form, blocks, resp>>

\* if !email_exists(&form.email, contacts)
add_contact_handler_check(p) ==
    /\ pc[p] = "check" /\ kind[p] = "PostContact"
    /\ pc' = [pc EXCEPT ![p] =
            IF ~email_exists(form[p].email, contacts) THEN "push" ELSE "reject"]
    /\ UNCHANGED <<counterVars, contactVars, kind, form, blocks, resp>>

\* Variant: the new contact is inserted at the front.
add_contact_handler_push_front(p) ==
    /\ pc[p] = "push" /\ kind[p] = "PostContact"
    /\ contacts' = <<new_contact[p]>> \o contacts
    /\ pc' = [pc EXCEPT ![p] = "render_form"]
    /\ UNCHANGED <<counterVars, contacts_owner, NEXT_ID, new_contact, formdata,
                   reversed, kind, form, blocks, resp>>

\* contacts.push(new_contact.clone());
add_contact_handler_push(p) ==
    /\ pc[p] = "push" /\ kind[p] = "PostContact"
    /\ contacts' = Append(contacts, new_contact[p])
    /\ pc' = [pc EXCEPT ![p] = "render_form"]
    /\ UNCHANGED <<counterVars, contacts_owner, NEXT_ID, new_contact, formdata,
                   reversed, kind, form, blocks, resp>>

add_contact_handler_render_form(p) ==
    /\ pc[p] = "render_form" /\ kind[p] = "PostContact"
    /\ blocks' = [blocks EXCEPT ![p] =
            <<render_block("contacts.html", [formdata |-> FormRejectionDataNew], "form")>>]
    /\ pc' = [pc EXCEPT ![p] = "render_oob"]
    /\ UNCHANGED <<counterVars, contactVars, kind, form, resp>>

add_contact_handler_render_oob(p) ==
    /\ pc[p] = "render_oob" /\ kind[p] = "PostContact"
    /\ blocks' = [blocks EXCEPT ![p] = Append(blocks[p],
            render_block("contacts.html", [contact |-> new_contact[p]], "oob_contact"))]
    /\ pc' = [pc EXCEPT ![p] = "return_ok"]
    /\ UNCHANGED <<counterVars, contactVars, kind, form, resp>>

\* return (StatusCode::OK, Html(form_block + new_contact_block.as_str()));
add_contact_handler_return_ok(p) ==
    /\ pc[p] = "return_ok" /\ kind[p] = "PostContact"
    /\ resp' = [resp EXCEPT ![p] = [status |-> OK, body |-> blocks[p]]]
    /\ contacts_owner' = 0
    /\ pc' = [pc EXCEPT ![p] = "done"]
    /\ UNCHANGED <<counterVars, contacts, NEXT_ID, new_contact, formdata, reversed,
                   kind, form, blocks>>

\* Variant: a duplicate submission overwrites the stored contact's name.
add_contact_handler_reject_renames(p) ==
    /\ pc[p] = "reject" /\ kind[p] = "PostContact"
    /\ contacts' = [i \in DOMAIN contacts |->
            IF contacts[i].email = form[p].email
            THEN [contacts[i] EXCEPT !.name = form[p].name]
            ELSE contacts[i]]
    /\ formdata' = [formdata EXCEPT ![p] =
            set_error(set_value(set_value(FormRejectionDataNew,
                                          "name", form[p].name),
                                "email", form[p].email),
                      "email", "Email already exists")]
    /\ pc' = [pc EXCEPT ![p] = "render_reject"]
    /\ UNCHANGED <<counterVars, contacts_owner, NEXT_ID, new_contact,
                   reversed, kind, form, blocks, resp>>

\* form_rejection_data: new, set_value name, set_value email, set_error email
add_contact_handler_reject(p) ==
    /\ pc[p] = "reject" /\ kind[p] = "PostContact"
    /\ formdata' = [formdata EXCEPT ![p] =
            set_error(set_value(set_value(FormRejectionDataNew,
                                          "name", form[p].name),
                                "email", form[p].email),
                      "email", "Email already exists")]
    /\ pc' = [pc EXCEPT ![p] = "render_reject"]
    /\ UNCHANGED <<counterVars, contacts, contacts_owner, NEXT_ID, new_contact,
                   reversed, kind, form, blocks, resp>>

add_contact_handler_render_reject(p) ==
    /\ pc[p] = "render_reject" /\ kind[p] = "PostContact"
    /\ blocks' = [blocks EXCEPT ![p] =
            <<render_block("contacts.html", [formdata |-> formdata[p]], "form")>>]
    /\ pc' = [pc EXCEPT ![p] = "return_reject"]
    /\ UNCHANGED <<counterVars, contactVars, kind, form, resp>>

\* (StatusCode::UNPROCESSABLE_ENTITY, Html(form_block))
add_contact_handler_return_reject(p) ==
    /\ pc[p] = "return_reject" /\ kind[p] = "PostContact"
    /\ resp' = [resp EXCEPT ![p] = [status |-> UNPROCESSABLE_ENTITY, body |-> blocks[p]]]
    /\ contacts_owner' = 0
    /\ pc' = [pc EXCEPT ![p] = "done"]
    /\ UNCHANGED <<counterVars, contacts, NEXT_ID, new_contact, formdata, reversed,
                   kind, form, blocks>>

\* Variant: the panic leaves the guard alive.
add_contact_handler_panic_keeps_lock(p) ==
    /\ pc[p] \in {"render_form", "render_oob", "render_reject"}
    /\ kind[p] = "PostContact"
    /\ pc' = [pc EXCEPT ![p] = "panicked"]
    /\ UNCHANGED <<counterVars, contactVars, kind, form, blocks, resp>>

add_contact_handler_panic(p) ==
    /\ pc[p] \in {"render_form", "render_oob", "render_reject"}
    /\ kind[p] = "PostContact"
    /\ contacts_owner' = 0
    /\ pc' = [pc EXCEPT ![p] = "panicked"]
    /\ UNCHANGED <<counterVars, contacts, NEXT_ID, new_contact, formdata, reversed,
                   kind, form, blocks, resp>>

----------------------------------------------------------------------------
Next ==
    \E p \in Reqs :
        \/ \E k \in Kinds, f \in FormData \cup {NoForm} : Begin(p, k, f)
        \/ counter_handler_lock(p)
        \/ counter_handler_render(p)
        \/ counter_handler_return(p)
        \/ counter_handler_panic(p)
        \/ increment_handler_lock(p)
        \/ increment_handler_load(p)
        \/ increment_handler_store(p)
        \/ increment_handler_render(p)
        \/ increment_handler_return(p)
        \/ increment_handler_panic(p)
        \/ contacts_handler_lock(p)
        \/ contacts_handler_reverse(p)
        \/ contacts_handler_render(p)
        \/ contacts_handler_return(p)
        \/ contacts_handler_panic(p)
        \/ add_contact_handler_lock(p)
        \/ add_contact_handler_new(p)
        \/ add_contact_handler_check(p)
        \/ add_contact_handler_push(p)
        \/ add_contact_handler_render_form(p)
        \/ add_contact_handler_render_oob(p)
        \/ add_contact_handler_return_ok(p)
        \/ add_contact_handler_reject(p)
        \/ add_contact_handler_render_reject(p)
        \/ add_contact_handler_return_reject(p)
        \/ add_contact_handler_panic(p)

Spec == Init /\ [][Next]_vars

\* The same server once the counter has been incremented up to one below
\* usize::MAX: the stores and the requests are as in Init.  Which of the two
\* outcomes of an overflowing `*count += 1` occurs depends on the build
\* profile, so both are steps.
InitNearMax ==
    /\ count = MaxUsize - 1
    /\ count_owner = 0
    /\ count_order = <<>>
    /\ contacts = <<SeedContact>>
    /\ contacts_owner = 0
    /\ NEXT_ID = fetch_add(NEXT_ID_START, 1)
    /\ pc = [p \in Reqs |-> "idle"]
    /\ kind = [p \in Reqs |-> "none"]
    /\ form = [p \in Reqs |-> NoForm]
    /\ tmp = [p \in Reqs |-> 0]
    /\ new_contact = [p \in Reqs |-> NoContact]
    /\ formdata = [p \in Reqs |-> FormRejectionDataNew]
    /\ reversed = [p \in Reqs |-> <<>>]
    /\ blocks = [p \in Reqs |-> <<>>]
    /\ resp = [p \in Reqs |-> NoResp]

NextNearMax ==
    \/ Next
    \/ \E p \in Reqs : increment_handler_overflow(p)

SpecNearMax == InitNearMax /\ [][NextNearMax]_vars

\* The steps of request p: resolving lock().await, and everything else.
Lock(p) ==
    \/ counter_handler_lock(p)
    \/ increment_handler_lock(p)
    \/ contacts_handler_lock(p)
    \/ add_contact_handler_lock(p)

Work(p) ==
    \/ counter_handler_render(p)
    \/ counter_handler_return(p)
    \/ counter_handler_panic(p)
    \/ increment_handler_load(p)
    \/ increment_handler_store(p)
    \/ increment_handler_render(p)
    \/ increment_handler_return(p)
    \/ increment_handler_panic(p)
    \/ contacts_handler_reverse(p)
    \/ contacts_handler_render(p)
    \/ contacts_handler_return(p)
    \/ contacts_handler_panic(p)
    \/ add_contact_handler_new(p)
    \/ add_contact_handler_check(p)
    \/ add_contact_handler_push(p)
    \/ add_contact_handler_render_form(p)
    \/ add_contact_handler_render_oob(p)
    \/ add_contact_handler_return_ok(p)
    \/ add_contact_handler_reject(p)
    \/ add_contact_handler_render_reject(p)
    \/ add_contact_handler_return_reject(p)
    \/ add_contact_handler_panic(p)

\* Scheduling: the runtime keeps polling a task that can run, and tokio's
\* Mutex hands the lock to its waiters in FIFO order, so a waiter that could
\* acquire the lock again and again does acquire it.  Requests arrive or not.
Fairness == \A p \in Reqs : WF_vars(Work(p)) /\ SF_vars(Lock(p))

SpecFair == Spec /\ Fairness

----------------------------------------------------------------------------
(* Vocabulary of the properties *)

Finished(p) == pc[p] \in {"done", "panicked"}

\* Some stored contact carries the email e.
HasEmail(cs, e) == \E i \in DOMAIN cs : cs[i].email = e

\* The contact c is an entry of cs.
Stored(cs, c) == \E i \in DOMAIN cs : cs[i] = c

\* Increment requests whose `*count += 1` has been written back.
Incremented ==
    {p \in Reqs : kind[p] = "PostIncrement"
                  /\ pc[p] \in {"render", "return", "done", "panicked"}}

\* Submissions carrying the email e.
Submissions(e) == {p \in Reqs : kind[p] = "PostContact" /\ form[p].email = e}

\* Positions of a handler at which it is about to call render_block.
RenderPcs == {"render", "render_form", "render_oob", "render_reject"}

----------------------------------------------------------------------------
\* C1: no lost updates.  The counter always equals its start value plus the
\* number of increment requests that have executed `*count += 1`; hence once
\* all N concurrent increments have completed it equals v + N, none lost and
\* none applied twice.
C1_NoLostUpdates == count = COUNT_START + Cardinality(Incremented)

\* Two concurrent increments both ran to completion.
C1_Witness ==
    /\ Cardinality({p \in Reqs : kind[p] = "PostIncrement" /\ pc[p] = "done"}) >= 2
    /\ \A p \in Reqs : kind[p] = "PostIncrement" => Finished(p)
    /\ count >= COUNT_START + 2

\* C2: at most one winner per email.  When all submissions (two or more) of
\* an email that the seed does not contain have finished, exactly one of them
\* inserted its contact, the collection holds exactly one entry with that
\* email and its id is unique; the winner's response, if it returned one, is
\* 200 and every other returned response is 422.
C2_OneWinnerPerEmail ==
    \A e \in Emails :
        LET S == Submissions(e)
            Winners == {p \in S : Stored(contacts, new_contact[p])}
        IN  (~HasEmail(<<SeedContact>>, e) /\ Cardinality(S) >= 2
             /\ \A p \in S : Finished(p))
            => /\ Cardinality(Winners) = 1
               /\ Cardinality({i \in DOMAIN contacts : contacts[i].email = e}) = 1
               /\ \A p \in Winners :
                    Cardinality({i \in DOMAIN contacts :
                                    contacts[i].id = new_contact[p].id}) = 1
               /\ \A p \in S : pc[p] = "done" =>
                    resp[p].status = IF p \in Winners THEN OK ELSE UNPROCESSABLE_ENTITY

\* Two submissions of the same new email both returned: one 200, one 422.
C2_Witness ==
    \E p, q \in Reqs :
        /\ p # q
        /\ kind[p] = "PostContact" /\ kind[q] = "PostContact"
        /\ form[p].email = form[q].email
        /\ ~HasEmail(<<SeedContact>>, form[p].email)
        /\ pc[p] = "done" /\ pc[q] = "done"
        /\ resp[p].status = OK /\ resp[q].status = UNPROCESSABLE_ENTITY

\* C3: email uniqueness.  No two stored contacts have equal emails, the
\* collection changes only by appending a contact whose email no stored
\* contact has, and a submission passes the check towards the push exactly
\* when no stored contact has its email.
C3_EmailsUnique ==
    \A i, j \in DOMAIN contacts : contacts[i].email = contacts[j].email => i = j

C3_InsertIffAbsent ==
    /\ contacts' # contacts =>
          \E p \in Reqs :
              /\ kind[p] = "PostContact"
              /\ ~HasEmail(contacts, form[p].email)
              /\ Len(contacts') = Len(contacts) + 1
              /\ contacts'[Len(contacts')].email = form[p].email
              /\ SubSeq(contacts', 1, Len(contacts)) = contacts
    /\ \A p \in Reqs :
          (pc[p] = "check" /\ pc'[p] # "check") =>
              /\ pc'[p] \in {"push", "reject"}
              /\ pc'[p] = "push" <=> ~HasEmail(contacts, form[p].email)
    /\ \A p \in Reqs :
          (pc[p] = "push" /\ pc'[p] # "push") => contacts' # contacts

C3_EmailUniqueness == []C3_EmailsUnique /\ [][C3_InsertIffAbsent]_vars

\* A new email was inserted and a duplicate of it was turned away.
C3_Witness ==
    /\ Len(contacts) >= 2
    /\ \E p \in Reqs :
          /\ kind[p] = "PostContact" /\ pc[p] = "reject"
          /\ HasEmail(contacts, form[p].email)
          /\ ~HasEmail(<<SeedContact>>, form[p].email)

\* C4: duplicate rejection.  While a submission holds the contact lock, has
\* not pushed and its email is stored, no step changes the collection, the
\* submission never enters the success branch, and if it returns it returns
\* 422 with only the form block, rendered with values {name, email} as
\* submitted and errors {email: "Email already exists"}.
C4_RejectedResp(p) ==
    [status |-> UNPROCESSABLE_ENTITY,
     body |-> <<[tpl |-> "contacts.html", blk |-> "form",
                 ctx |-> [formdata |->
                    [values |-> [name |-> form[p].name, email |-> form[p].email],
                     errors |-> [email |-> "Email already exists"]]]]>>]

C4_Step ==
    \A p \in Reqs :
        ( /\ kind[p] = "PostContact"
          /\ contacts_owner = p
          /\ pc[p] \in {"new", "check", "reject", "render_reject", "return_reject"}
          /\ HasEmail(contacts, form[p].email) )
        => /\ contacts' = contacts
           /\ pc'[p] \in {"new", "check", "reject", "render_reject", "return_reject",
                          "done", "panicked"}
           /\ pc'[p] = "done" => resp'[p] = C4_RejectedResp(p)

C4_DuplicateRejection == [][C4_Step]_vars

\* A duplicate of the seed email, submitted under another name, got its 422.
C4_Witness ==
    \E p \in Reqs :
        /\ kind[p] = "PostContact" /\ pc[p] = "done"
        /\ form[p].email = SeedContact.email /\ form[p].name # SeedContact.name
        /\ resp[p] = C4_RejectedResp(p)
        /\ Len(contacts) = 1

\* C5: a rejected submission consumes no id.  Whenever no request is inside
\* add_contact_handler's critical section, the allocator NEXT_ID is exactly
\* one greater than the largest id assigned so far (the id of the last
\* contact), so the next accepted contact gets that id.
C5_NoIdConsumed ==
    contacts_owner = 0 => NEXT_ID = contacts[Len(contacts)].id + 1

\* C6: successful submission.  While a submission holds the contact lock and
\* no stored contact has its email, its steps lead to the push, the push
\* appends exactly one contact with the submitted name and email and a fresh
\* id at the end; a submission that pushed returns, if it returns, 200 with
\* the form block of the empty form state followed by the oob_contact block
\* of the contact it stored.
C6_OkResp(c) ==
    [status |-> OK,
     body |-> <<[tpl |-> "contacts.html", blk |-> "form",
                 ctx |-> [formdata |-> [values |-> EmptyMap, errors |-> EmptyMap]]],
                [tpl |-> "contacts.html", blk |-> "oob_contact",
                 ctx |-> [contact |-> c]]>>]

C6_Step ==
    \A p \in Reqs :
        /\ ( /\ kind[p] = "PostContact"
             /\ contacts_owner = p
             /\ pc[p] \in {"new", "check", "push"}
             /\ ~HasEmail(contacts, form[p].email)
             /\ pc'[p] # pc[p] )
           => /\ pc'[p] = CASE pc[p] = "new" -> "check"
                            [] pc[p] = "check" -> "push"
                            [] pc[p] = "push" -> "render_form"
              /\ pc[p] # "push" => contacts' = contacts
              /\ pc[p] = "push" =>
                    /\ Len(contacts') = Len(contacts) + 1
                    /\ SubSeq(contacts', 1, Len(contacts)) = contacts
                    /\ contacts'[Len(contacts')].name = form[p].name
                    /\ contacts'[Len(contacts')].email = form[p].email
                    /\ \A i \in DOMAIN contacts :
                          contacts[i].id # contacts'[Len(contacts')].id
        /\ ( /\ kind[p] = "PostContact"
             /\ pc[p] \in {"render_form", "render_oob", "return_ok"}
             /\ pc'[p] # pc[p] )
           => /\ contacts' = contacts
              /\ pc'[p] = "done" =>
                    \E i \in DOMAIN contacts :
                        /\ contacts[i].name = form[p].name
                        /\ contacts[i].email = form[p].email
                        /\ resp'[p] = C6_OkResp(contacts[i])

C6_SuccessfulSubmission == [][C6_Step]_vars

\* A new contact was appended last and its 200 response carries it.
C6_Witness ==
    \E p \in Reqs :
        /\ kind[p] = "PostContact" /\ pc[p] = "done"
        /\ Len(contacts) >= 2
        /\ resp[p] = C6_OkResp(contacts[Len(contacts)])

\* C7: contact ids are pairwise distinct and strictly increasing in storage
\* order, the seed contact included.
C7_IdsIncreasing ==
    \A i, j \in DOMAIN contacts : i < j => contacts[i].id < contacts[j].id

\* Two contacts were accepted after the seed.
C7_Witness == Len(contacts) >= 3

\* C8: the count an increment renders is its own: the i-th increment request
\* in the order of acquisition of the counter lock renders, and returns with
\* status 200, exactly COUNT_START + i.
IncOrder == SelectSeq(count_order, LAMBDA r : kind[r] = "PostIncrement")

C8_Fragment(i) ==
    <<[tpl |-> "counter.html", blk |-> "count", ctx |-> [count |-> COUNT_START + i]]>>

C8_OwnMutation ==
    \A i \in DOMAIN IncOrder :
        LET r == IncOrder[i] IN
        /\ pc[r] \in {"return", "done"} => blocks[r] = C8_Fragment(i)
        /\ pc[r] = "done" => resp[r] = [status |-> OK, body |-> C8_Fragment(i)]

\* Two increments returned, the higher-numbered request first.
C8_Witness ==
    \E p, q \in Reqs :
        /\ p < q
        /\ kind[p] = "PostIncrement" /\ kind[q] = "PostIncrement"
        /\ pc[p] = "done" /\ pc[q] = "done"
        /\ resp[q].body = C8_Fragment(1) /\ resp[p].body = C8_Fragment(2)

\* C9: no handler is at a call of render_block while it holds the counter
\* lock or the contact lock.
C9_NoLockAcrossRender ==
    \A p \in Reqs :
        pc[p] \in RenderPcs => (count_owner # p /\ contacts_owner # p)

\* C10: a render failure leaves no store partially mutated.  At every call
\* of render_block the caller's mutation is already in the store (the count
\* is the loaded value plus one, the new contact is the last entry); the
\* panic itself changes no store and frees the lock, and a request that
\* panicked holds no lock afterwards.
C10_State ==
    \A p \in Reqs :
        /\ (kind[p] = "PostIncrement" /\ pc[p] = "render") => count = tmp[p] + 1
        /\ (kind[p] = "PostContact" /\ pc[p] \in {"render_form", "render_oob"})
              => contacts[Len(contacts)] = new_contact[p]
        /\ pc[p] = "panicked" => (count_owner # p /\ contacts_owner # p)

C10_Step ==
    \A p \in Reqs :
        (pc[p] # "panicked" /\ pc'[p] = "panicked") =>
            /\ pc[p] \in RenderPcs
            /\ count' = count /\ contacts' = contacts /\ NEXT_ID' = NEXT_ID
            /\ kind[p] \in {"GetCounter", "PostIncrement"} => count_owner' = 0
            /\ kind[p] \in {"GetContacts", "PostContact"} => contacts_owner' = 0

C10_RenderFailure == []C10_State /\ [][C10_Step]_vars

\* An increment and a successful submission both panicked in render, and the
\* stores hold both mutations with both locks free.
C10_Witness ==
    /\ \E p \in Reqs : kind[p] = "PostIncrement" /\ pc[p] = "panicked"
    /\ \E p \in Reqs : /\ kind[p] = "PostContact" /\ pc[p] = "panicked"
                       /\ Stored(contacts, new_contact[p])
    /\ count = COUNT_START + Cardinality(Incremented)
    /\ count_owner = 0 /\ contacts_owner = 0

CounterKinds == {"GetCounter", "PostIncrement"}
ContactKinds == {"GetContacts", "PostContact"}

\* C11: no request ever holds the counter lock and the contact lock together,
\* a request waiting for a lock holds none, each lock is held only by a
\* request of its own store, and whenever some request waits for a lock some
\* request can take a step (no deadlock).
C11_NoTwoLocks ==
    /\ \A p \in Reqs : ~(count_owner = p /\ contacts_owner = p)
    /\ \A p \in Reqs : pc[p] = "lock" => (count_owner # p /\ contacts_owner # p)
    /\ count_owner # 0 => kind[count_owner] \in CounterKinds
    /\ contacts_owner # 0 => kind[contacts_owner] \in ContactKinds
    /\ (\E p \in Reqs : pc[p] = "lock") => \E q \in Reqs : ENABLED (Lock(q) \/ Work(q))

\* A submission waits for the contact lock while another request holds it.
C11_Witness ==
    \E p, q \in Reqs :
        /\ p # q
        /\ pc[q] = "lock" /\ kind[q] = "PostContact"
        /\ contacts_owner = p

\* C12: the contact list view is most-recently-added-first.  While
\* contacts_handler still holds the lock after rendering, its fragment is the
\* contacts block whose list is the stored collection read backwards (last
\* inserted first, seed last) with an empty form state; what it returns is
\* that fragment with status 200, the reverse of the collection as it was (a
\* prefix of the current one); and no step of contacts_handler changes the
\* stored collection.
C12_Fragment(view) ==
    <<[tpl |-> "contacts.html", blk |-> "contacts",
       ctx |-> [contacts |-> view,
                formdata |-> [values |-> EmptyMap, errors |-> EmptyMap]]]>>

C12_Backwards(view, stored) ==
    /\ Len(view) = Len(stored)
    /\ \A i \in 1..Len(stored) : view[i] = stored[Len(stored) + 1 - i]

C12_State ==
    \A p \in Reqs :
        kind[p] = "GetContacts" =>
            /\ pc[p] = "return" =>
                  /\ blocks[p] = C12_Fragment(blocks[p][1].ctx.contacts)
                  /\ C12_Backwards(blocks[p][1].ctx.contacts, contacts)
            /\ pc[p] = "done" =>
                  /\ resp[p].status = OK
                  /\ resp[p].body = C12_Fragment(resp[p].body[1].ctx.contacts)
                  /\ \E n \in 1..Len(contacts) :
                        C12_Backwards(resp[p].body[1].ctx.contacts, SubSeq(contacts, 1, n))

C12_Step ==
    \A p \in Reqs :
        (kind[p] = "GetContacts" /\ pc'[p] # pc[p]) => contacts' = contacts

C12_MostRecentFirst == []C12_State /\ [][C12_Step]_vars

\* A returned view lists an added contact first and the seed contact last.
C12_Witness ==
    \E p \in Reqs :
        /\ kind[p] = "GetContacts" /\ pc[p] = "done"
        /\ Len(resp[p].body[1].ctx.contacts) >= 2
        /\ resp[p].body[1].ctx.contacts[1] # SeedContact
        /\ resp[p].body[1].ctx.contacts[Len(resp[p].body[1].ctx.contacts)] = SeedContact

\* C13: GetCounter is a pure read and idempotent.  No step of counter_handler
\* changes the counter value; the fragment it renders is the counter block
\* of the value the counter has while it holds the lock; and two GET /counter
\* requests with no increment between them in the order of the counter lock
\* render the same fragment and return the same response.
C13_Pos(p) == CHOOSE i \in DOMAIN count_order : count_order[i] = p

C13_Rendered(p) == kind[p] = "GetCounter" /\ pc[p] \in {"return", "done"}

C13_State ==
    /\ \A p \in Reqs :
          (kind[p] = "GetCounter" /\ pc[p] = "return") =>
              blocks[p] = <<[tpl |-> "counter.html", blk |-> "counter",
                             ctx |-> [count |-> count]]>>
    /\ \A p, q \in Reqs :
          ( /\ C13_Rendered(p) /\ C13_Rendered(q)
            /\ C13_Pos(p) < C13_Pos(q)
            /\ \A k \in C13_Pos(p)..C13_Pos(q) : kind[count_order[k]] # "PostIncrement" )
          => /\ blocks[p] = blocks[q]
             /\ (pc[p] = "done" /\ pc[q] = "done") =>
                    (resp[p] = resp[q] /\ resp[p].status = OK /\ resp[p].body = blocks[p])

C13_Step ==
    \A p \in Reqs : (kind[p] = "GetCounter" /\ pc'[p] # pc[p]) => count' = count

C13_PureRead == []C13_State /\ [][C13_Step]_vars

\* Two GET /counter requests both returned, with equal responses.
C13_Witness ==
    \E p, q \in Reqs :
        /\ p # q
        /\ kind[p] = "GetCounter" /\ kind[q] = "GetCounter"
        /\ pc[p] = "done" /\ pc[q] = "done"
        /\ resp[p] = resp[q] /\ resp[p].status = OK

\* C14: the counter only increases.  In every step the counter value stays
\* the same or becomes exactly value + 1; it never decreases, also when the
\* value is usize::MAX.
C14_OnlyIncreases == [][count' = count \/ count' = count + 1]_vars

\* C15: the contact collection is append-only.  In every step the collection
\* before the step is a prefix of the collection after it and at most one
\* contact is added, as the last entry; stored contacts are never removed,
\* reordered or changed, not even by a rejected duplicate that carries
\* another name.
C15_Step ==
    /\ Len(contacts') \in {Len(contacts), Len(contacts) + 1}
    /\ \A i \in DOMAIN contacts : contacts'[i] = contacts[i]

C15_AppendOnly == [][C15_Step]_vars

\* A duplicate of the seed email under another name was rejected after a
\* contact had been appended; the seed contact is still first and unchanged.
C15_Witness ==
    /\ Len(contacts) >= 2
    /\ contacts[1] = SeedContact
    /\ \E p \in Reqs :
          /\ kind[p] = "PostContact" /\ pc[p] = "done"
          /\ resp[p].status = UNPROCESSABLE_ENTITY
          /\ form[p].email = SeedContact.email /\ form[p].name # SeedContact.name

\* C16: guaranteed release and completion.  Every handler releases its lock
\* on every exit path and every started request produces its response: a
\* request that has acquired its lock and has no step left holds no lock and
\* has returned a response.
C16_ReleaseAndCompletion ==
    \A p \in Reqs :
        (pc[p] \notin {"idle", "lock"} /\ ~ENABLED Work(p)) =>
            /\ count_owner # p /\ contacts_owner # p
            /\ resp[p] # NoResp

\* The same claim over whole executions under fair scheduling: every waiting
\* request eventually acquires its lock and every started request eventually
\* returns its response.
C16_EventuallyResponds ==
    /\ \A p \in Reqs : (pc[p] = "lock") ~> (pc[p] # "lock")
    /\ \A p \in Reqs : (pc[p] = "lock") ~> (pc[p] = "done")

\* What holds of the handlers as they are: every request that ends, by a
\* return or by a panic in render_block, holds no lock, every waiting request
\* acquires its lock, and every started request ends.
C16_ReleaseAndTermination ==
    /\ [](\A p \in Reqs : Finished(p) => (count_owner # p /\ contacts_owner # p))
    /\ \A p \in Reqs : (pc[p] = "lock") ~> (pc[p] # "lock")
    /\ \A p \in Reqs : (pc[p] = "lock") ~> Finished(p)

\* C17: each handler reads or mutates exactly one store.  A step of
\* counter_handler or increment_handler leaves the contact collection, the
\* id allocator and the contact lock unchanged; a step of contacts_handler
\* or add_contact_handler leaves the counter value and the counter lock
\* unchanged; and the locks are independent: a request waiting for a free
\* lock can acquire it whoever holds the other store's lock.
C17_Independent ==
    \A p \in Reqs :
        pc[p] = "lock" =>
            /\ (kind[p] \in CounterKinds /\ count_owner = 0) => ENABLED Lock(p)
            /\ (kind[p] \in ContactKinds /\ contacts_owner = 0) => ENABLED Lock(p)

C17_Step ==
    \A p \in Reqs :
        pc'[p] # pc[p] =>
            /\ kind'[p] \in CounterKinds =>
                  /\ contacts' = contacts
                  /\ NEXT_ID' = NEXT_ID
                  /\ contacts_owner' = contacts_owner
            /\ kind'[p] \in ContactKinds =>
                  /\ count' = count
                  /\ count_owner' = count_owner

C17_OneStore == []C17_Independent /\ [][C17_Step]_vars

\* An increment and a submission are inside their critical sections at once,
\* each past its write.
C17_Witness ==
    \E p, q \in Reqs :
        /\ kind[p] = "PostIncrement" /\ count_owner = p /\ pc[p] = "render"
        /\ kind[q] = "PostContact" /\ contacts_owner = q /\ pc[q] = "render_form"

\* C18: duplicate detection is exact, case-sensitive equality on the email.
\* The check rejects a submission exactly when some stored contact's email is
\* equal to the submitted one; a rejected submission has an equal email in
\* the collection; and two submissions whose emails differ only in letter
\* case, each the only submission of its email and neither seeded, are both
\* accepted with 200 and both stored.
C18_OnlyInCase(a, b) == a # b /\ to_ascii_lowercase(a) = to_ascii_lowercase(b)

C18_State ==
    /\ \A p \in Reqs :
          (kind[p] = "PostContact" /\ pc[p] = "done") =>
              /\ resp[p].status = UNPROCESSABLE_ENTITY =>
                    \E i \in DOMAIN contacts :
                        contacts[i].email = form[p].email /\ contacts[i] # new_contact[p]
              /\ resp[p].status = OK => Stored(contacts, new_contact[p])
    /\ \A p, q \in Reqs :
          ( /\ kind[p] = "PostContact" /\ kind[q] = "PostContact"
            /\ C18_OnlyInCase(form[p].email, form[q].email)
            /\ Submissions(form[p].email) = {p} /\ Submissions(form[q].email) = {q}
            /\ ~HasEmail(<<SeedContact>>, form[p].email)
            /\ ~HasEmail(<<SeedContact>>, form[q].email)
            /\ pc[p] = "done" /\ pc[q] = "done" )
          => /\ resp[p].status = OK /\ resp[q].status = OK
             /\ Stored(contacts, new_contact[p]) /\ Stored(contacts, new_contact[q])

C18_Step ==
    \A p \in Reqs :
        (pc[p] = "check" /\ pc'[p] # "check") =>
            (pc'[p] = "reject" <=> \E i \in DOMAIN contacts : contacts[i].email = form[p].email)

C18_ExactMatch == []C18_State /\ [][C18_Step]_vars

\* jane@example.com and Jane@example.com were both accepted and stored.
C18_Witness ==
    \E p, q \in Reqs :
        /\ kind[p] = "PostContact" /\ kind[q] = "PostContact"
        /\ C18_OnlyInCase(form[p].email, form[q].email)
        /\ pc[p] = "done" /\ pc[q] = "done"
        /\ resp[p].status = OK /\ resp[q].status = OK
        /\ Stored(contacts, new_contact[p]) /\ Stored(contacts, new_contact[q])

\* C19: reads are serialized with increments.  At the instant counter_handler
\* reads the count for its fragment no increment is between acquiring the
\* lock and writing its sum back, the value read is the value the counter
\* holds at that instant, and it is not smaller than the value returned by
\* any increment that has completed (so by any that completed before the
\* read request started); the value a read returns is the start value plus
\* the number of increments that took the counter lock before it.
C19_IncrementsBefore(p) ==
    Cardinality({k \in 1..C13_Pos(p) : kind[count_order[k]] = "PostIncrement"})

C19_State ==
    \A p \in Reqs :
        (kind[p] = "GetCounter" /\ pc[p] = "done") =>
            /\ resp[p].body[1].ctx.count = COUNT_START + C19_IncrementsBefore(p)
            /\ resp[p].body[1].ctx.count <= count

C19_Step ==
    \A p \in Reqs :
        (kind[p] = "GetCounter" /\ pc[p] = "render" /\ pc'[p] = "return") =>
            /\ blocks'[p][1].ctx.count = count
            /\ \A q \in Reqs :
                  kind[q] = "PostIncrement" =>
                      /\ pc[q] \notin {"load", "store"}
                      /\ pc[q] = "done" => resp[q].body[1].ctx.count <= blocks'[p][1].ctx.count

C19_SerializedReads == []C19_State /\ [][C19_Step]_vars

\* A read that arrived before an increment returned after it, with the
\* incremented value.
C19_Witness ==
    \E p, q \in Reqs :
        /\ p < q
        /\ kind[p] = "GetCounter" /\ kind[q] = "PostIncrement"
        /\ pc[p] = "done" /\ pc[q] = "done"
        /\ resp[p].body[1].ctx.count = COUNT_START + 1
        /\ resp[q].body[1].ctx.count = COUNT_START + 1

====
